---- MODULE Spec2Model ----
(***************************************************************************)
(* The usbfs transport of mtp/backend/linux/usb/Device.cpp.                *)
(*   Spec, FairSpec: the session's table of in-flight urbs (_urbs) under   *)
(*     _mutex, Device::Submit with its poll/reap loop, and the chunk loops *)
(*     of Device::WriteBulk and Device::ReadBulk, run by two caller        *)
(*     threads against one kernel completion queue.                        *)
(*   ControlSpec: InterfaceToken, Device::ClearHalt, Device::ReadControl   *)
(*     and Device::WriteControl, one synchronous ioctl each.               *)
(*   UrbSpec: the buffer Urb::Urb allocates for an endpoint.               *)
(***************************************************************************)
EXTENDS Integers, Sequences, FiniteSets, TLC

\* ------------------------------------------------------------------ bounds
MaxCalls == 1       \* bulk calls each thread makes
MaxChunks == 1      \* full-size chunks one stream carries at most
MaxPacketSize == 4200   \* largest endpoint packet size an Urb is built for
TimeoutMs == 1000    \* the timeout the bulk calls are given, in ms
MaxData == 2        \* longest buffer a control transfer is given (and one past u16)

\* --------------------------------------------------------------- constants
MaxBufferSize == 4096

Threads == {"A", "B"}
PacketSizes == {512}
Caps == {"ZERO_PACKET", "BULK_CONTINUATION"}
Errors == {"Timeout", "Busy", "NotFound", "IOError"}
NoUrb == <<"none", 0>>
NoKernelUrb == [buffer_length |-> 0, actual_length |-> 0, flags |-> {}, data |-> 0]

VARIABLES
    _capabilities,      \* Device::_capabilities, as the set of capability bits
    _urbs,              \* Device::_urbs, as the set of its keys
    _mutex,             \* Device::_mutex: the thread that holds it, or "none"
    inflight,           \* kernel: urbs submitted and not yet completed
    completed,          \* kernel: queue of completions not yet reaped
    pc,                 \* where each thread stands
    op,                 \* the bulk call each thread runs ("write", "read")
    urb,                \* identity of the Urb of each thread's call
    KernelUrb,          \* Urb::KernelUrb of each thread's Urb
    transferSize,       \* local transferSize of the bulk call
    r,                  \* local r of the bulk call
    continuation,       \* local continuation of the bulk call
    input,              \* bytes left in the call's input stream
    calls,              \* bulk calls each thread has begun
    pollR,              \* Reap: result of poll()
    waitedMs,           \* history: ms the latest Submit spent in polls that ran out
    completedKernelUrb, \* Submit: the identity Reap returned
    submitRes,          \* how the thread's latest Device::Submit returned
    callRes,            \* how the thread's bulk call returned
    inLen,              \* history: length of the call's input stream
    chunks,             \* history: urbs of the call the kernel accepted
    devlog,             \* history: completions the device reported for the call's urb
    sink,               \* output stream of the call: the writes it received
    nSubmit,            \* history: Device::Submit calls of the bulk call
    nOk,                \* history: those that returned normally
    discards,           \* history: Urb::Discard calls of the latest Submit
    discardRes,         \* history: what the latest Urb::Discard ioctl returned
    reapErrno,          \* history: errno of the failed reap ioctl of the latest Submit
    submitErrno,        \* history: "ok" or errno of the latest USBDEVFS_SUBMITURB
    stolen,             \* history: another thread's loop erased this Submit's entry
    lost,               \* history: urbs dropped as unknown while their Submit ran
    Urb_PacketSize,     \* Urb::PacketSize of the Urb built on its own (0: none asked for)
    Urb_Buffer,         \* Urb::Buffer.size() of that Urb (-1: not built)
    token,              \* the InterfaceToken: "none", "held", "released"
    claimIoctls,        \* history: claim ioctls of the latest InterfaceToken constructor
    lastCall,           \* history: the latest call outside the bulk transfers
    lastErrno,          \* history: "ok" or the errno of that call's ioctl
    thrown,             \* history: the exception that call left with ("none": it returned)
    data,               \* data.size() after the latest control transfer
    dataWas,            \* history: data.size() when that control transfer was called
    ctrlR               \* history: what its USBDEVFS_CONTROL ioctl returned

vars == <<_capabilities, _urbs, _mutex, inflight, completed, pc, op, urb, KernelUrb,
          transferSize, r, continuation, input, calls, pollR, waitedMs,
          completedKernelUrb, submitRes, callRes, inLen, chunks, devlog,
          sink, nSubmit, nOk, discards, discardRes, reapErrno, submitErrno, stolen,
          lost, Urb_PacketSize, Urb_Buffer, token, claimIoctls, lastCall, lastErrno,
          thrown, data, dataWas, ctrlR>>

kernelVars == <<inflight, completed>>
callVars == <<op, urb, transferSize, calls, inLen>>
loopVars == <<KernelUrb, r, continuation, input>>
catchVars == <<discards, discardRes, reapErrno>>
\* what the calls outside the bulk transfers work on
urbVars == <<Urb_PacketSize, Urb_Buffer>>
controlVars == <<token, claimIoctls, lastCall, lastErrno, thrown, data, dataWas,
                 ctrlR>>
aloneVars == <<urbVars, controlVars>>
\* what the bulk transfers and the kernel's urb queue work on
bulkVars == <<_mutex, inflight, completed, pc, op, urb, KernelUrb, transferSize, r,
              continuation, input, calls, pollR, waitedMs, completedKernelUrb,
              submitRes,
              callRes, inLen, chunks, devlog, sink, nSubmit, nOk, discards,
              discardRes, reapErrno, submitErrno, stolen, lost>>

\* ----------------------------------------------------------------- helpers
Min(a, b) == IF a < b THEN a ELSE b
Max(a, b) == IF a > b THEN a ELSE b

\* GetTransferSize done wrong: the multiple alone, without std::max.
GetTransferSize_floor(PacketSize) == (MaxBufferSize \div PacketSize) * PacketSize

\* Urb::Urb: the size of Buffer
GetTransferSize(PacketSize) ==
    Max(PacketSize, (MaxBufferSize \div PacketSize) * PacketSize)

\* SetFlag done wrong: the flag is set whatever the value.
SetFlag_set(flags, Flag, value) == flags \cup {Flag}

\* Urb::SetFlag<Flag>(value)
SetFlag(flags, Flag, value) ==
    IF value THEN flags \cup {Flag} ELSE flags \ {Flag}

\* IObjectInputStream::Read(buffer, size) on a stream with `left` bytes left
InputStream_Read(left, size) == Min(left, size)

\* IObjectOutputStream::Write(data, size): the bytes it took
OutputStream_Write(size) == size

\* IOCTL done wrong: every errno becomes posix::Exception.
IOCTL_generic(errno) == "IOError"

\* IOCTL: the exception an errno becomes
IOCTL(errno) ==
    IF errno = "EBUSY" THEN "Busy"
    ELSE IF errno = "ENODEV" THEN "NotFound"
    ELSE "IOError"

Owner(u) == u[1]
\* the Urb object u names is the one its owner's running call works on
Live(u) == u # NoUrb /\ urb[Owner(u)] = u /\ callRes[Owner(u)] = "running"
QueuedIds == {completed[i].id : i \in 1..Len(completed)}

\* the input lengths and the device's chunk lengths the model draws from
InputLens(ts) == {k * ts + e : k \in 0..MaxChunks, e \in {0, 1}}
ShortLens(ts) == {0, ts - 1}

\* ------------------------------------------------------------------- Init
\* Device::Device: the capability probe either fills _capabilities or fails
\* and leaves it 0; _urbs starts empty and nothing is submitted.
\* Device::Device: the capability probe
InitCapabilities ==
    \E probed \in BOOLEAN, kernelCaps \in SUBSET Caps :
        _capabilities = IF probed THEN kernelCaps ELSE {}

\* no bulk call has begun and the kernel holds no urb
InitBulk ==
    /\ _mutex = "none"
    /\ inflight = {}
    /\ completed = <<>>
    /\ pc = [t \in Threads |-> "Idle"]
    /\ op = [t \in Threads |-> "none"]
    /\ urb = [t \in Threads |-> NoUrb]
    /\ KernelUrb = [t \in Threads |-> NoKernelUrb]
    /\ transferSize = [t \in Threads |-> 0]
    /\ r = [t \in Threads |-> 0]
    /\ continuation = [t \in Threads |-> FALSE]
    /\ input = [t \in Threads |-> 0]
    /\ calls = [t \in Threads |-> 0]
    /\ pollR = [t \in Threads |-> 0]
    /\ waitedMs = [t \in Threads |-> 0]
    /\ completedKernelUrb = [t \in Threads |-> NoUrb]
    /\ submitRes = [t \in Threads |-> "none"]
    /\ callRes = [t \in Threads |-> "none"]
    /\ inLen = [t \in Threads |-> 0]
    /\ chunks = [t \in Threads |-> <<>>]
    /\ devlog = [t \in Threads |-> <<>>]
    /\ sink = [t \in Threads |-> <<>>]
    /\ nSubmit = [t \in Threads |-> 0]
    /\ nOk = [t \in Threads |-> 0]
    /\ discards = [t \in Threads |-> 0]
    /\ discardRes = [t \in Threads |-> "none"]
    /\ reapErrno = [t \in Threads |-> "none"]
    /\ submitErrno = [t \in Threads |-> "none"]
    /\ stolen = [t \in Threads |-> FALSE]
    /\ lost = {}

\* no call outside the bulk transfers has been made
InitControl ==
    /\ token = "none"
    /\ claimIoctls = 0
    /\ lastCall = "none"
    /\ lastErrno = "ok"
    /\ thrown = "none"
    /\ data = 0
    /\ dataWas = 0
    /\ ctrlR = 0

InitAlone ==
    /\ Urb_PacketSize = 0
    /\ Urb_Buffer = -1
    /\ InitControl

Init ==
    /\ InitCapabilities
    /\ _urbs = {}
    /\ InitBulk
    /\ InitAlone

\* ------------------------------------------------------- WriteBulk / ReadBulk
\* The first two lines of both calls: make_shared<Urb>, GetTransferSize.
\* The history of the thread's previous call is dropped.
BeginCall(t, kind, PacketSize, N) ==
    /\ pc[t] = "Idle"
    /\ calls[t] < MaxCalls
    /\ calls' = [calls EXCEPT ![t] = @ + 1]
    /\ op' = [op EXCEPT ![t] = kind]
    /\ urb' = [urb EXCEPT ![t] = <<t, calls[t] + 1>>]
    /\ transferSize' = [transferSize EXCEPT ![t] = GetTransferSize(PacketSize)]
    /\ inLen' = [inLen EXCEPT ![t] = N]
    /\ callRes' = [callRes EXCEPT ![t] = "running"]
    /\ chunks' = [chunks EXCEPT ![t] = <<>>]
    /\ devlog' = [devlog EXCEPT ![t] = <<>>]
    /\ sink' = [sink EXCEPT ![t] = <<>>]
    /\ nSubmit' = [nSubmit EXCEPT ![t] = 1]
    /\ nOk' = [nOk EXCEPT ![t] = 0]
    /\ discards' = [discards EXCEPT ![t] = 0]
    /\ discardRes' = [discardRes EXCEPT ![t] = "none"]
    /\ reapErrno' = [reapErrno EXCEPT ![t] = "none"]
    /\ submitErrno' = [submitErrno EXCEPT ![t] = "none"]
    /\ stolen' = [stolen EXCEPT ![t] = FALSE]
    /\ UNCHANGED <<_capabilities, _mutex, aloneVars, _urbs, kernelVars, pollR,
                   completedKernelUrb, lost>>

\* EndCall done wrong: the bulk loop swallows an exception of Submit and goes
\* on to its loop condition.
EndCall_swallow(t, res) ==
    IF res \in Errors
    THEN /\ pc' = [pc EXCEPT ![t] = IF op[t] = "write" THEN "WWhile" ELSE "RRecv"]
         /\ UNCHANGED <<callRes, KernelUrb, r, continuation, input, pollR,
                        waitedMs,
                        completedKernelUrb>>
    ELSE /\ pc' = [pc EXCEPT ![t] = "Idle"]
         /\ callRes' = [callRes EXCEPT ![t] = res]
         /\ KernelUrb' = [KernelUrb EXCEPT ![t] = NoKernelUrb]
         /\ r' = [r EXCEPT ![t] = 0]
         /\ continuation' = [continuation EXCEPT ![t] = FALSE]
         /\ input' = [input EXCEPT ![t] = 0]
         /\ pollR' = [pollR EXCEPT ![t] = 0]
         /\ waitedMs' = [waitedMs EXCEPT ![t] = 0]
         /\ completedKernelUrb' = [completedKernelUrb EXCEPT ![t] = NoUrb]

\* The bulk call returns (normally or by an exception): its locals and its
\* reference to the Urb are gone.
EndCall(t, res) ==
    /\ pc' = [pc EXCEPT ![t] = "Idle"]
    /\ callRes' = [callRes EXCEPT ![t] = res]
    /\ KernelUrb' = [KernelUrb EXCEPT ![t] = NoKernelUrb]
    /\ r' = [r EXCEPT ![t] = 0]
    /\ continuation' = [continuation EXCEPT ![t] = FALSE]
    /\ input' = [input EXCEPT ![t] = 0]
    /\ pollR' = [pollR EXCEPT ![t] = 0]
    /\ waitedMs' = [waitedMs EXCEPT ![t] = 0]
    /\ completedKernelUrb' = [completedKernelUrb EXCEPT ![t] = NoUrb]

\* ZeroPacket done wrong: every chunk is marked.
ZeroPacket_always(n, ts) == TRUE

\* WriteBulk: the zero-packet flag of a chunk of n bytes
ZeroPacket(n, ts) == n # ts

\* WriteBulk, the loop body up to the call of Submit, on an Urb k with `left`
\* bytes left in the stream, of which Urb::Send reads n: Urb::Send, the
\* zero-packet flag, the continuation flag.
WriteBulk_send(t, k, left, cont, ts, n) ==
    /\ r' = [r EXCEPT ![t] = n]
    /\ input' = [input EXCEPT ![t] = left - n]
    /\ LET f1 == IF "ZERO_PACKET" \in _capabilities
                 THEN SetFlag(k.flags, "ZERO_PACKET", ZeroPacket(n, ts))
                 ELSE k.flags
           f2 == IF "BULK_CONTINUATION" \in _capabilities
                 THEN SetFlag(f1, "BULK_CONTINUATION", cont)
                 ELSE f1
       IN KernelUrb' = [KernelUrb EXCEPT ![t] =
                           [k EXCEPT !.buffer_length = n, !.flags = f2]]
    /\ continuation' = [continuation EXCEPT ![t] =
           IF "BULK_CONTINUATION" \in _capabilities THEN TRUE ELSE cont]
    /\ pc' = [pc EXCEPT ![t] = "UrbSubmit"]
    /\ submitRes' = [submitRes EXCEPT ![t] = "running"]
    /\ waitedMs' = [waitedMs EXCEPT ![t] = 0]

\* WriteBulk up to its first call of Submit
WriteBulk_begin(t) ==
    \E PacketSize \in PacketSizes :
        \E N \in InputLens(GetTransferSize(PacketSize)) :
            LET ts == GetTransferSize(PacketSize)
            IN /\ BeginCall(t, "write", PacketSize, N)
               /\ WriteBulk_send(t, [NoKernelUrb EXCEPT !.buffer_length = ts], N,
                                 FALSE, ts, InputStream_Read(N, ts))

\* WriteBulk_continues done wrong: while(r > transferSize), and
\* while(r != transferSize).
WriteBulk_continues_gt(rr, ts) == rr > ts
WriteBulk_continues_ne(rr, ts) == rr # ts

\* WriteBulk: while(r == transferSize)
WriteBulk_continues(rr, ts) == rr = ts

\* WriteBulk after a call of Submit returned: the loop condition, and the
\* loop body up to the next call of Submit.
WriteBulk_while(t) ==
    /\ pc[t] = "WWhile"
    /\ IF WriteBulk_continues(r[t], transferSize[t])
       THEN /\ WriteBulk_send(t, KernelUrb[t], input[t], continuation[t],
                              transferSize[t],
                              InputStream_Read(input[t], transferSize[t]))
            /\ nSubmit' = [nSubmit EXCEPT ![t] = @ + 1]
            /\ UNCHANGED <<callRes, pollR, completedKernelUrb>>
       ELSE /\ EndCall(t, "ok")
            /\ UNCHANGED <<submitRes, nSubmit>>
    /\ UNCHANGED <<_capabilities, _mutex, aloneVars, submitErrno, _urbs,
                   kernelVars, callVars, chunks, devlog,
                   sink, nOk, catchVars, stolen, lost>>

\* ReadBulk, the loop body up to the call of Submit, on an Urb k: the
\* continuation flag.
ReadBulk_flags(t, k, cont) ==
    /\ KernelUrb' = [KernelUrb EXCEPT ![t] =
           IF "BULK_CONTINUATION" \in _capabilities
           THEN [k EXCEPT !.flags = SetFlag(@, "BULK_CONTINUATION", cont)]
           ELSE k]
    /\ continuation' = [continuation EXCEPT ![t] =
           IF "BULK_CONTINUATION" \in _capabilities THEN TRUE ELSE cont]
    /\ pc' = [pc EXCEPT ![t] = "UrbSubmit"]
    /\ submitRes' = [submitRes EXCEPT ![t] = "running"]
    /\ waitedMs' = [waitedMs EXCEPT ![t] = 0]

\* ReadBulk up to its first call of Submit
ReadBulk_begin(t) ==
    \E PacketSize \in PacketSizes :
        /\ BeginCall(t, "read", PacketSize, 0)
        /\ ReadBulk_flags(t, [NoKernelUrb EXCEPT
                                 !.buffer_length = GetTransferSize(PacketSize)],
                          FALSE)
        /\ UNCHANGED <<r, input>>

\* Urb_Recv done wrong: it writes the whole buffer, not the received part.
Urb_Recv_buffer(k) == [data |-> k.data, len |-> k.buffer_length]

\* Urb::Recv(outputStream): what it hands to the output stream
Urb_Recv(k) == [data |-> k.data, len |-> k.actual_length]

\* ReadBulk: while(r == transferSize)
ReadBulk_continues(rr, ts) == rr = ts

\* ReadBulk after a call of Submit returned: r = urb->Recv(outputStream),
\* the loop condition, and the loop body up to the next call of Submit.
ReadBulk_recv(t) ==
    /\ pc[t] = "RRecv"
    /\ LET w == Urb_Recv(KernelUrb[t])
           n == OutputStream_Write(w.len)
       IN /\ sink' = [sink EXCEPT ![t] = Append(@, w)]
          /\ IF ReadBulk_continues(n, transferSize[t])
             THEN /\ r' = [r EXCEPT ![t] = n]
                  /\ ReadBulk_flags(t, KernelUrb[t], continuation[t])
                  /\ nSubmit' = [nSubmit EXCEPT ![t] = @ + 1]
                  /\ UNCHANGED <<callRes, input, pollR, completedKernelUrb>>
             ELSE /\ EndCall(t, "ok")
                  /\ UNCHANGED <<submitRes, nSubmit>>
    /\ UNCHANGED <<_capabilities, _mutex, aloneVars, submitErrno, _urbs,
                   kernelVars, callVars, chunks, devlog,
                   nOk, catchVars, stolen, lost>>

\* ------------------------------------------------------------ Device::Submit
\* The chunk the kernel has accepted, as the device sees it.
Chunk(k) == [len |-> k.buffer_length, flags |-> k.flags]

\* Urb::Discard: the USBDEVFS_DISCARDURB ioctl. The kernel accepts it only for
\* an urb it still has in flight, which it cancels: the cancelled urb is
\* queued as completed, to be reaped like any other. A failure is printed
\* and not reported.
Urb_Discard(u) == IF u \in inflight THEN "ok" ELSE "failed"

\* Urb_Submit_failed done wrong: urb->Submit() stands inside the try block
\* and after the insert, so that a catch clause takes its exception.
Urb_Submit_failed_caught(t, e) ==
    /\ _urbs' = _urbs \cup {urb[t]}
    /\ discards' = [discards EXCEPT ![t] = @ + 1]
    /\ discardRes' = [discardRes EXCEPT ![t] = Urb_Discard(urb[t])]
    /\ submitRes' = [submitRes EXCEPT ![t] = e]
    /\ EndCall(t, e)

\* Submit when urb->Submit() throws e: the call stands before the insert and
\* outside the try block, so e leaves Submit and the bulk call at once.
Urb_Submit_failed(t, e) ==
    /\ submitRes' = [submitRes EXCEPT ![t] = e]
    /\ EndCall(t, e)
    /\ UNCHANGED <<_urbs, discards, discardRes>>

\* Submit: urb->Submit(), the USBDEVFS_SUBMITURB ioctl under IOCTL.
Urb_Submit(t) ==
    /\ pc[t] = "UrbSubmit"
    /\ \E errno \in {"ok", "EBUSY", "ENODEV", "EIO"} :
           /\ submitErrno' = [submitErrno EXCEPT ![t] = errno]
           /\ IF errno = "ok"
              THEN /\ inflight' = inflight \cup {urb[t]}
                   /\ chunks' = [chunks EXCEPT ![t] = Append(@, Chunk(KernelUrb[t]))]
                   /\ pc' = [pc EXCEPT ![t] = "Insert"]
                   /\ UNCHANGED <<submitRes, callRes, loopVars, pollR, waitedMs,
                                  completedKernelUrb, _urbs, discards, discardRes>>
              ELSE /\ Urb_Submit_failed(t, IOCTL(errno))
                   /\ UNCHANGED <<inflight, chunks>>
    /\ UNCHANGED <<_capabilities, _mutex, aloneVars, completed, callVars,
                   devlog, sink,
                   nSubmit, nOk, reapErrno, stolen, lost>>

\* LockPoints done wrong: the lock is taken before the call of Reap.
LockPoints_early == {"Insert", "Poll", "Lookup"}

\* Submit: where a scoped_mutex_lock is constructed: before the insert, and
\* after Reap has returned
LockPoints == {"Insert", "Lookup"}

\* Submit: scoped_mutex_lock l(_mutex), which waits until the mutex is free
scoped_mutex_lock(t) ==
    /\ pc[t] \in LockPoints
    /\ _mutex = "none"
    /\ _mutex' = t
    /\ UNCHANGED <<_capabilities, _urbs, aloneVars, inflight, completed, pc, op,
                   urb, KernelUrb, transferSize, r, continuation, input, calls,
                   pollR, waitedMs, completedKernelUrb, submitRes, callRes, inLen,
                   chunks,
                   devlog, sink, nSubmit, nOk, discards, discardRes, reapErrno,
                   submitErrno, stolen, lost>>

\* Submit: _urbs.insert(...) under the lock, released at the end of the block
Submit_insert(t) ==
    /\ pc[t] = "Insert"
    /\ _mutex = t
    /\ _urbs' = _urbs \cup {urb[t]}
    /\ _mutex' = "none"
    /\ pc' = [pc EXCEPT ![t] = "Poll"]
    /\ UNCHANGED <<_capabilities, aloneVars, submitErrno, kernelVars, callVars,
                   loopVars, pollR, waitedMs,
                   completedKernelUrb, submitRes, callRes, chunks, devlog, sink,
                   nSubmit, nOk, catchVars, stolen, lost>>

\* Rethrown done wrong: a failed Urb::Discard replaces the exception.
Rethrown_escalate(e, d) == IF d = "failed" THEN "IOError" ELSE e

\* Submit: the `throw;` of a catch clause, after Urb::Discard returned d:
\* the exception e that was caught
Rethrown(e, d) == e

\* Submit: either catch clause, for the exception e that Reap threw:
\* urb->Discard(); throw. The exception leaves the bulk call too.
Submit_catch(t, e) ==
    /\ discardRes' = [discardRes EXCEPT ![t] = Urb_Discard(urb[t])]
    /\ discards' = [discards EXCEPT ![t] = @ + 1]
    /\ IF Urb_Discard(urb[t]) = "ok"
       THEN /\ inflight' = inflight \ {urb[t]}
            /\ completed' = Append(completed,
                                   [id |-> urb[t], actual_length |-> 0, data |-> 0])
       ELSE UNCHANGED <<inflight, completed>>
    /\ submitRes' = [submitRes EXCEPT ![t] = Rethrown(e, Urb_Discard(urb[t]))]
    /\ EndCall(t, Rethrown(e, Urb_Discard(urb[t])))

\* Reap_timeout done wrong: poll is given what is left of the timeout.
Reap_timeout_remaining(timeout, waited) == Max(0, timeout - waited)

\* Submit: Reap(timeout), and Reap: poll(&fd, 1, timeout), in a Submit whose
\* polls have run out for `waited` ms so far: the timeout poll is given
Reap_timeout(timeout, waited) == timeout

\* Reap: poll(&fd, 1, timeout). It returns 1 when a completion is queued,
\* 0 when the timeout passes with none queued, -1 when it fails: Reap throws
\* posix::Exception, which Submit catches.
Reap_poll(t) ==
    /\ pc[t] = "Poll"
    /\ \E res \in {-1, 0, 1} :
           /\ res = 1 => completed # <<>>
           /\ res = 0 => completed = <<>>
           /\ IF res < 0
              THEN Submit_catch(t, "IOError")
              ELSE /\ pollR' = [pollR EXCEPT ![t] = res]
                   /\ waitedMs' = [waitedMs EXCEPT ![t] =
                          IF res = 0 THEN @ + Reap_timeout(TimeoutMs, @) ELSE @]
                   /\ pc' = [pc EXCEPT ![t] = "ReapIoctl"]
                   /\ UNCHANGED <<kernelVars, loopVars, completedKernelUrb,
                                  submitRes, callRes, discards, discardRes>>
    /\ UNCHANGED <<_capabilities, _mutex, aloneVars, submitErrno, _urbs,
                   callVars, chunks, devlog, sink, nSubmit,
                   nOk, reapErrno, stolen, lost>>

\* Reap_failed done wrong: EAGAIN is not told from the other errors.
Reap_failed_generic(errno) == "IOError"

\* Reap: what it throws after a failed USBDEVFS_REAPURBNDELAY ioctl
Reap_failed(errno) == IF errno = "EAGAIN" THEN "Timeout" ELSE "IOError"

\* Reap and Submit after a failed USBDEVFS_REAPURBNDELAY ioctl: Reap throws,
\* the exception leaves Submit's loop, a catch clause of Submit takes it.
Reap_throw(t, errno) == Submit_catch(t, Reap_failed(errno))

\* Reap: the USBDEVFS_REAPURBNDELAY ioctl. With a completion queued it takes
\* the first one (the kernel writes the result into that urb) and returns its
\* identity; with none it fails with EAGAIN; it may fail otherwise (ENODEV).
Reap_ioctl(t) ==
    /\ pc[t] = "ReapIoctl"
    /\ \/ /\ completed # <<>>
          /\ LET c == Head(completed)
             IN /\ completedKernelUrb' = [completedKernelUrb EXCEPT ![t] = c.id]
                /\ KernelUrb' = IF Live(c.id)
                                THEN [KernelUrb EXCEPT
                                         ![Owner(c.id)].actual_length = c.actual_length,
                                         ![Owner(c.id)].data = c.data]
                                ELSE KernelUrb
          /\ completed' = Tail(completed)
          /\ pc' = [pc EXCEPT ![t] = "Lookup"]
          /\ UNCHANGED <<inflight, r, continuation, input, pollR, waitedMs,
                         submitRes,
                         callRes, catchVars>>
       \/ \E errno \in {"EAGAIN", "ENODEV"} :
              /\ errno = "EAGAIN" => completed = <<>>
              /\ reapErrno' = [reapErrno EXCEPT ![t] = errno]
              /\ Reap_throw(t, errno)
    /\ UNCHANGED <<_capabilities, _mutex, aloneVars, submitErrno, _urbs,
                   callVars, chunks, devlog, sink,
                   nSubmit, nOk, stolen, lost>>

\* Submit_breaks done wrong: any urb found in _urbs ends the loop.
Submit_breaks_any(completedUrb, u) == TRUE

\* Submit: if (completedUrb == urb) break
Submit_breaks(completedUrb, u) == completedUrb = u

\* Submit: the block under the lock after Reap returned, and the comparison
\* with the own urb: find, "got unknown urb" and continue, or erase and
\* break / loop.
Submit_lookup(t) ==
    /\ pc[t] = "Lookup"
    /\ _mutex = t
    /\ _mutex' = "none"
    /\ LET k == completedKernelUrb[t]
       IN IF k \notin _urbs
          THEN /\ lost' = IF Live(k) /\ submitRes[Owner(k)] = "running"
                          THEN lost \cup {k} ELSE lost
               /\ pc' = [pc EXCEPT ![t] = "Poll"]
               /\ UNCHANGED <<_urbs, submitRes, nOk, stolen>>
          ELSE /\ _urbs' = _urbs \ {k}
               /\ IF Submit_breaks(k, urb[t])
                  THEN /\ submitRes' = [submitRes EXCEPT ![t] = "ok"]
                       /\ nOk' = [nOk EXCEPT ![t] = @ + 1]
                       /\ pc' = [pc EXCEPT ![t] =
                              IF op[t] = "write" THEN "WWhile" ELSE "RRecv"]
                       /\ UNCHANGED stolen
                  ELSE /\ stolen' = IF Live(k) /\ submitRes[Owner(k)] = "running"
                                    THEN [stolen EXCEPT ![Owner(k)] = TRUE]
                                    ELSE stolen
                       /\ pc' = [pc EXCEPT ![t] = "Poll"]
                       /\ UNCHANGED <<submitRes, nOk>>
               /\ UNCHANGED lost
    /\ pollR' = [pollR EXCEPT ![t] = 0]
    /\ completedKernelUrb' = [completedKernelUrb EXCEPT ![t] = NoUrb]
    /\ UNCHANGED <<_capabilities, aloneVars, submitErrno, waitedMs, kernelVars,
                   callVars, loopVars, callRes,
                   chunks, devlog, sink, nSubmit, catchVars>>

\* -------------------------------------------------------------- the kernel
FullChunks(log, ts) == Cardinality({i \in 1..Len(log) : log[i].len = ts})

\* The lengths the device may report for urb u: all of a written chunk; for
\* a read, a short length or (at most MaxChunks times a call) a full buffer.
ActualLens(u) ==
    IF ~Live(u) THEN {0}
    ELSE IF op[Owner(u)] = "write" THEN {KernelUrb[Owner(u)].buffer_length}
    ELSE ShortLens(transferSize[Owner(u)]) \cup
         (IF FullChunks(devlog[Owner(u)], transferSize[Owner(u)]) < MaxChunks
          THEN {transferSize[Owner(u)]} ELSE {})

\* The kernel completes an urb in flight and queues the completion.
Kernel_complete(u) ==
    /\ u \in inflight
    /\ inflight' = inflight \ {u}
    /\ \E n \in ActualLens(u) :
           LET d == IF Live(u) THEN Len(devlog[Owner(u)]) + 1 ELSE 0
           IN /\ completed' = Append(completed,
                                     [id |-> u, actual_length |-> n, data |-> d])
              /\ devlog' = IF Live(u)
                           THEN [devlog EXCEPT ![Owner(u)] =
                                    Append(@, [data |-> d, len |-> n])]
                           ELSE devlog
    /\ UNCHANGED <<_capabilities, _mutex, aloneVars, submitErrno, _urbs, pc,
                   callVars, loopVars, pollR, waitedMs,
                   completedKernelUrb, submitRes, callRes, chunks, sink,
                   nSubmit, nOk, catchVars, stolen, lost>>

\* ------------------------------------------------------------------- Next
AllUrbs == {<<t, n>> : t \in Threads, n \in 1..MaxCalls}

Step(t) ==
    \/ WriteBulk_while(t)
    \/ ReadBulk_recv(t)
    \/ Urb_Submit(t)
    \/ scoped_mutex_lock(t)
    \/ Submit_insert(t)
    \/ Reap_poll(t)
    \/ Reap_ioctl(t)
    \/ Submit_lookup(t)

Next ==
    \/ \E t \in Threads : WriteBulk_begin(t)
    \/ \E t \in Threads : ReadBulk_begin(t)
    \/ \E t \in Threads : Step(t)
    \/ \E u \in AllUrbs : Kernel_complete(u)

Spec == Init /\ [][Next]_vars

\* A thread inside a call is scheduled again, and poll returns when its
\* timeout has passed: every thread inside a call takes its next step.
\* The session starts on a kernel whose capabilities were all probed;
\* the capability bits only select urb flags and no branch of Submit.
FairInit == Init /\ _capabilities = Caps

FairSpec ==
    /\ FairInit
    /\ [][Next]_vars
    /\ \A t \in Threads : WF_vars(Step(t))

TypeOK ==
    /\ _capabilities \subseteq Caps
    /\ _urbs \subseteq AllUrbs
    /\ inflight \subseteq AllUrbs
    /\ QueuedIds \subseteq AllUrbs
    /\ inflight \cap QueuedIds = {}
    /\ _mutex \in Threads \cup {"none"}
    /\ \A t \in Threads : callRes[t] \in {"none", "running", "ok"} \cup Errors
    /\ \A t \in Threads : submitRes[t] \in {"none", "running", "ok"} \cup Errors

\* ------------------------------- InterfaceToken, ClearHalt, control transfers
\* the errno values the model lets an ioctl fail with
Errnos == {"EBUSY", "ENODEV", "EAGAIN", "EIO"}

\* the buffer lengths a control transfer is called with
DataSizes == (0..MaxData) \cup {65536 + 1}

\* usbdevfs_ctrltransfer::wLength = data.size(): the field is 16 bits wide
wLength(size) == size % 65536

\* InterfaceToken::InterfaceToken: IOCTL(_fd, USBDEVFS_CLAIMINTERFACE, ...).
\* When the macro throws, no token exists.
InterfaceToken_InterfaceToken ==
    /\ token # "held"
    /\ \E errno \in {"ok"} \cup Errnos :
           /\ lastErrno' = errno
           /\ IF errno = "ok"
              THEN token' = "held" /\ thrown' = "none"
              ELSE token' = token /\ thrown' = IOCTL(errno)
    /\ claimIoctls' = 1
    /\ lastCall' = "InterfaceToken"
    /\ UNCHANGED <<_capabilities, _urbs, bulkVars, urbVars, data, dataWas, ctrlR>>

\* InterfaceToken::~InterfaceToken: the USBDEVFS_RELEASEINTERFACE ioctl, its
\* result not looked at.
InterfaceToken_release ==
    /\ token = "held"
    /\ \E errno \in {"ok"} \cup Errnos : lastErrno' = errno
    /\ token' = "released"
    /\ thrown' = "none"
    /\ lastCall' = "~InterfaceToken"
    /\ UNCHANGED <<_capabilities, _urbs, bulkVars, urbVars, claimIoctls, data,
                   dataWas, ctrlR>>

\* ClearHalt_catch done wrong: the exception is thrown on.
ClearHalt_catch_rethrow(e) == e

\* ClearHalt: catch(const std::exception &) logs the exception e; nothing
\* leaves the function.
ClearHalt_catch(e) == "none"

\* Device::ClearHalt: IOCTL(_fd.Get(), USBDEVFS_CLEAR_HALT, &index) in a try
\* block.
ClearHalt ==
    /\ \E errno \in {"ok"} \cup Errnos :
           /\ lastErrno' = errno
           /\ thrown' = IF errno = "ok" THEN "none" ELSE ClearHalt_catch(IOCTL(errno))
    /\ lastCall' = "ClearHalt"
    /\ UNCHANGED <<_capabilities, _urbs, bulkVars, urbVars, token, claimIoctls,
                   data, dataWas, ctrlR>>

\* the exception a failed USBDEVFS_CONTROL ioctl becomes
Control_failed(errno) == IF errno = "EAGAIN" THEN "Timeout" ELSE "IOError"

\* ReadControl_resize done wrong: the buffer keeps its length.
ReadControl_resize_keep(size, n) == size

\* ReadControl: data.resize(r)
ReadControl_resize(size, n) == n

\* Device::ReadControl on a buffer of `size` bytes: the device transfers up
\* to wLength bytes, or the ioctl fails.
ReadControl ==
    /\ \E size \in DataSizes :
           /\ dataWas' = size
           /\ \/ \E n \in 0..wLength(size) :
                     /\ ctrlR' = n
                     /\ lastErrno' = "ok"
                     /\ data' = ReadControl_resize(size, n)
                     /\ thrown' = "none"
              \/ \E errno \in Errnos :
                     /\ ctrlR' = -1
                     /\ lastErrno' = errno
                     /\ data' = size
                     /\ thrown' = Control_failed(errno)
    /\ lastCall' = "ReadControl"
    /\ UNCHANGED <<_capabilities, _urbs, bulkVars, urbVars, token, claimIoctls>>

\* Device::WriteControl on a buffer of `size` bytes
WriteControl ==
    /\ \E size \in DataSizes :
           /\ dataWas' = size
           /\ data' = size
           /\ \/ \E n \in 0..wLength(size) :
                     /\ ctrlR' = n
                     /\ lastErrno' = "ok"
                     /\ thrown' = "none"
              \/ \E errno \in Errnos :
                     /\ ctrlR' = -1
                     /\ lastErrno' = errno
                     /\ thrown' = Control_failed(errno)
    /\ lastCall' = "WriteControl"
    /\ UNCHANGED <<_capabilities, _urbs, bulkVars, urbVars, token, claimIoctls>>

\* The calls are made while _urbs holds whatever the Submit calls of the
\* session have put and left in it.
ControlInit ==
    /\ InitCapabilities
    /\ _urbs \in SUBSET AllUrbs
    /\ InitBulk
    /\ InitAlone

ControlNext ==
    \/ InterfaceToken_InterfaceToken
    \/ InterfaceToken_release
    \/ ClearHalt
    \/ ReadControl
    \/ WriteControl

ControlSpec == ControlInit /\ [][ControlNext]_vars

\* ------------------------------------------------------------- Urb::Urb
\* Urb::Urb for an endpoint whose GetMaxPacketSize() is Urb_PacketSize: the
\* Buffer it allocates.
Urb_Urb ==
    /\ Urb_Buffer = -1
    /\ Urb_Buffer' = GetTransferSize(Urb_PacketSize)
    /\ UNCHANGED <<_capabilities, _urbs, bulkVars, Urb_PacketSize, controlVars>>

UrbInit ==
    /\ InitCapabilities
    /\ _urbs = {}
    /\ InitBulk
    /\ Urb_PacketSize \in 1..MaxPacketSize
    /\ Urb_Buffer = -1
    /\ InitControl

UrbSpec == UrbInit /\ [][Urb_Urb]_vars

\* ================================================================= claims
Lens(log) == [i \in 1..Len(log) |-> log[i].len]
IsPrefix(a, b) == Len(a) <= Len(b) /\ \A i \in 1..Len(a) : a[i] = b[i]
Returned(t) == submitRes[t] \in {"ok"} \cup Errors
InKernel(u) == u \in inflight \/ u \in QueuedIds
\* N \div ts chunks of ts bytes and then one of no bytes
FullThenEmpty(N, ts) == [i \in 1..(N \div ts + 1) |-> IF i <= N \div ts THEN ts ELSE 0]

\* C1 (as the claim states it): while a Submit call runs _urbs holds at most
\* one entry for its urb, and once the call has returned, with success, with
\* Timeout or with any other failure, _urbs holds no entry for its urb.
C1_NoEntryAfterSubmitReturns ==
    \A t \in Threads :
        /\ submitRes[t] = "running" => Cardinality({k \in _urbs : k = urb[t]}) <= 1
        /\ Returned(t) => urb[t] \notin _urbs

\* C2 (as the claim states it, and leaving out the urbs a thread is about to
\* insert or to erase): an urb is a key of _urbs if and only if it has been
\* submitted to the kernel and its completion has not been reaped.
C2_PendingIffSubmittedNotReaped ==
    \A u \in AllUrbs :
        /\ (u \in _urbs /\ ~(\E t \in Threads : pc[t] = "Lookup" /\ completedKernelUrb[t] = u))
               => InKernel(u)
        /\ (InKernel(u) /\ ~(\E t \in Threads : pc[t] = "Insert" /\ urb[t] = u))
               => u \in _urbs

\* C3 (as the claim states it): a Submit whose completion another thread's
\* loop reaped returns by failing with Timeout.
C3_StolenReturnsTimeout ==
    \A t \in Threads : (stolen[t] /\ Returned(t)) => submitRes[t] = "Timeout"

\* C3 (amended): a Submit whose completion another thread's loop reaped
\* eventually returns, never with success: with Timeout when its reap ioctl
\* finds nothing ready, with the generic failure when poll or the reap ioctl
\* itself fails.
C3_StolenReturnsFailure ==
    /\ [](\A t \in Threads :
             (stolen[t] /\ submitRes[t] # "running") =>
                 \/ submitRes[t] = "Timeout" /\ reapErrno[t] = "EAGAIN"
                 \/ submitRes[t] = "IOError" /\ reapErrno[t] # "EAGAIN")
    /\ <>[](\A t \in Threads : stolen[t] => Returned(t))

C3_Witness ==
    \E t \in Threads :
        stolen[t] /\ submitRes[t] = "Timeout" /\ discardRes[t] = "failed"

\* C4: a Submit whose reap finds nothing ready when the timeout has passed
\* fails with Timeout, having called Urb::Discard exactly once and not having
\* seen its own completion; whether Discard succeeded or failed, the error
\* stays Timeout.
C4_TimeoutDiscardsOnce ==
    \A t \in Threads :
        /\ reapErrno[t] = "EAGAIN" => submitRes[t] = "Timeout"
        /\ submitRes[t] = "Timeout" =>
               /\ reapErrno[t] = "EAGAIN"
               /\ callRes[t] = "Timeout"
               /\ discards[t] = 1
               /\ discardRes[t] \in {"ok", "failed"}
               /\ nOk[t] = nSubmit[t] - 1

C4_Witness ==
    \E t \in Threads :
        /\ submitRes[t] = "Timeout" /\ discards[t] = 1 /\ discardRes[t] = "failed"
        /\ ~stolen[t]

\* C5 (as the claim states it, in the case it names): when poll reported the
\* device ready, another thread took the completion and the reap ioctl then
\* reports that nothing is ready, Submit has not failed: it is back at its
\* wait.
C5_NothingReadyKeepsWaiting ==
    [][\A t \in Threads :
          (pc[t] = "ReapIoctl" /\ pollR[t] = 1
               /\ reapErrno[t] = "none" /\ reapErrno'[t] = "EAGAIN") =>
              (submitRes'[t] = "running" /\ pc'[t] = "Poll")]_vars

\* C6 (as the claim states it): an urb that a reap yields and _urbs does not
\* hold was not submitted by a Submit call of this session, and no urb is
\* dropped as unknown while the Submit that submitted it runs.
C6_UnknownNotOfThisSession ==
    /\ \A t \in Threads :
           (pc[t] = "Lookup" /\ completedKernelUrb[t] \notin _urbs) =>
               \A o \in Threads : completedKernelUrb[t] # urb[o]
    /\ lost = {}

\* C7: with the zero-packet capability, WriteBulk on a stream whose length N
\* is a multiple of the transfer size submits N/size full chunks and then one
\* chunk of no bytes, in that order, and nothing after it.
C7_MultipleEndsWithEmptyChunk ==
    \A t \in Threads :
        (op[t] = "write" /\ "ZERO_PACKET" \in _capabilities
             /\ inLen[t] % transferSize[t] = 0) =>
            /\ IsPrefix(Lens(chunks[t]), FullThenEmpty(inLen[t], transferSize[t]))
            /\ callRes[t] = "ok" =>
                   Lens(chunks[t]) = FullThenEmpty(inLen[t], transferSize[t])

C7_Witness ==
    \E t \in Threads :
        /\ op[t] = "write" /\ "ZERO_PACKET" \in _capabilities
        /\ inLen[t] = transferSize[t] /\ callRes[t] = "ok"
        /\ Len(chunks[t]) = 2

\* C8 (as the claim states it): without the zero-packet capability,
\* WriteBulk on a stream whose length N is a multiple of the transfer size
\* submits N/size chunks and no chunk of no bytes.
C8_MultipleWithoutTerminator ==
    \A t \in Threads :
        (op[t] = "write" /\ "ZERO_PACKET" \notin _capabilities
             /\ inLen[t] % transferSize[t] = 0 /\ callRes[t] = "ok") =>
            /\ Len(chunks[t]) = inLen[t] \div transferSize[t]
            /\ \A i \in 1..Len(chunks[t]) : chunks[t][i].len # 0

\* C8 (amended): without the zero-packet capability, WriteBulk on a stream
\* whose length N is a multiple of the transfer size submits N/size full
\* chunks and then one chunk of no bytes, and no chunk carries the
\* zero-packet flag.
C8_MultipleStillEndsWithEmptyChunk ==
    \A t \in Threads :
        (op[t] = "write" /\ "ZERO_PACKET" \notin _capabilities
             /\ inLen[t] % transferSize[t] = 0) =>
            /\ IsPrefix(Lens(chunks[t]), FullThenEmpty(inLen[t], transferSize[t]))
            /\ \A i \in 1..Len(chunks[t]) : "ZERO_PACKET" \notin chunks[t][i].flags
            /\ callRes[t] = "ok" =>
                   /\ Len(chunks[t]) = inLen[t] \div transferSize[t] + 1
                   /\ chunks[t][Len(chunks[t])].len = 0

C8_Witness ==
    \E t \in Threads :
        /\ op[t] = "write" /\ "ZERO_PACKET" \notin _capabilities
        /\ inLen[t] = transferSize[t] /\ callRes[t] = "ok"
        /\ Lens(chunks[t]) = <<transferSize[t], 0>>

\* C9: ReadBulk submits chunks until the first received chunk shorter than
\* the transfer size and none after it; the output stream has received, in
\* order, the bytes the device reported for the received chunks, all of
\* them when the call returns.
C9_ReadStopsAtShortChunk ==
    \A t \in Threads :
        op[t] = "read" =>
            /\ IsPrefix(sink[t], devlog[t])
            /\ \A i \in 1..(Len(sink[t]) - 1) : sink[t][i].len = transferSize[t]
            /\ Len(sink[t]) <= Len(chunks[t])
            /\ Len(chunks[t]) <= Len(sink[t]) + 1
            /\ (Len(sink[t]) > 0 /\ sink[t][Len(sink[t])].len < transferSize[t]) =>
                   (callRes[t] = "ok" /\ Len(chunks[t]) = Len(sink[t]))
            /\ callRes[t] = "ok" =>
                   /\ sink[t] = devlog[t]
                   /\ Len(sink[t]) > 0
                   /\ sink[t][Len(sink[t])].len < transferSize[t]

C9_Witness ==
    \E t \in Threads :
        /\ op[t] = "read" /\ callRes[t] = "ok" /\ Len(sink[t]) = 2
        /\ sink[t][1].len = transferSize[t] /\ sink[t][2].len = transferSize[t] - 1

\* C10: a bulk call runs one Submit at a time, each after the one before has
\* returned normally; when a Submit fails the call submits nothing more and
\* fails with that error; a call that returns normally has had every chunk
\* it submitted completed.
C10_ChunksInSequence ==
    \A t \in Threads :
        callRes[t] # "none" =>
            /\ nSubmit[t] <= nOk[t] + 1
            /\ nOk[t] <= Len(chunks[t]) /\ Len(chunks[t]) <= nSubmit[t]
            /\ submitRes[t] = "running" => nSubmit[t] = nOk[t] + 1
            /\ callRes[t] \in Errors =>
                   (submitRes[t] = callRes[t] /\ nSubmit[t] = nOk[t] + 1)
            /\ callRes[t] = "ok" =>
                   /\ submitRes[t] = "ok"
                   /\ nOk[t] = nSubmit[t]
                   /\ Len(chunks[t]) = nSubmit[t]
                   /\ Len(devlog[t]) = Len(chunks[t])

C10_Witness ==
    \E t \in Threads :
        callRes[t] = "Timeout" /\ nOk[t] = 1 /\ nSubmit[t] = 2 /\ Len(chunks[t]) = 2

\* C11 (as the claim states it): for every packet size P >= 1, also above
\* MaxBufferSize, the Buffer of a new Urb is the largest multiple of P that
\* does not exceed MaxBufferSize, and is never less than P.
C11_LargestMultipleBelowCeiling ==
    Urb_Buffer # -1 =>
        /\ Urb_Buffer % Urb_PacketSize = 0
        /\ Urb_Buffer <= MaxBufferSize
        /\ Urb_Buffer + Urb_PacketSize > MaxBufferSize
        /\ Urb_Buffer >= Urb_PacketSize

\* C11 (amended): the Buffer of a new Urb is never less than P; for P up to
\* MaxBufferSize it is the largest multiple of P that does not exceed
\* MaxBufferSize, and for P above MaxBufferSize it is P itself, which
\* exceeds MaxBufferSize.
C11_LargestMultipleOrOnePacket ==
    Urb_Buffer # -1 =>
        /\ Urb_Buffer >= Urb_PacketSize
        /\ Urb_PacketSize <= MaxBufferSize =>
               /\ Urb_Buffer % Urb_PacketSize = 0
               /\ Urb_Buffer <= MaxBufferSize
               /\ Urb_Buffer + Urb_PacketSize > MaxBufferSize
        /\ Urb_PacketSize > MaxBufferSize =>
               (Urb_Buffer = Urb_PacketSize /\ Urb_Buffer > MaxBufferSize)

C11_Witness == Urb_PacketSize = MaxBufferSize + 1 /\ Urb_Buffer = MaxBufferSize + 1

\* C12 (as the claim states it): the constructor of InterfaceToken issues the
\* claim ioctl once, and whatever errno the ioctl fails with, the error is
\* the generic I/O failure.
C12_ClaimFailureIsGeneric ==
    lastCall = "InterfaceToken" =>
        /\ claimIoctls = 1
        /\ lastErrno # "ok" => thrown = "IOError"

\* C12 (amended): the constructor of InterfaceToken issues the claim ioctl
\* once; a failure with EBUSY is reported as Busy, one with ENODEV as
\* NotFound, any other as the generic I/O failure, and a token is held
\* exactly when the ioctl succeeded.
C12_ClaimFailureIsTyped ==
    lastCall = "InterfaceToken" =>
        /\ claimIoctls = 1
        /\ lastErrno = "ok" => (thrown = "none" /\ token = "held")
        /\ lastErrno = "EBUSY" => (thrown = "Busy" /\ token # "held")
        /\ lastErrno = "ENODEV" => (thrown = "NotFound" /\ token # "held")
        /\ lastErrno \in {"EAGAIN", "EIO"} => (thrown = "IOError" /\ token # "held")

C12_Witness == lastCall = "InterfaceToken" /\ lastErrno = "EBUSY" /\ thrown = "Busy"

\* C14: after a ReadControl that returned, the buffer is as long as the
\* ioctl said was transferred, also when it was longer before; after one
\* that failed the buffer is as long as before, and the error is Timeout for
\* EAGAIN and the generic I/O failure otherwise; no control transfer changes
\* _urbs.
C14_ReadControlResizes ==
    [][/\ lastCall' = "ReadControl" =>
             /\ thrown' = "none" => (ctrlR' >= 0 /\ data' = ctrlR' /\ data' <= dataWas')
             /\ thrown' # "none" =>
                    /\ ctrlR' < 0 /\ data' = dataWas'
                    /\ thrown' = IF lastErrno' = "EAGAIN" THEN "Timeout" ELSE "IOError"
             /\ lastErrno' = "ok" <=> thrown' = "none"
       /\ lastCall' \in {"ReadControl", "WriteControl"} => _urbs' = _urbs]_vars

C14_Witness ==
    /\ lastCall = "ReadControl" /\ thrown = "none"
    /\ dataWas = MaxData /\ data = 1 /\ _urbs # {}

\* C15: ClearHalt and the destructor of InterfaceToken return normally
\* whatever their ioctl returned, and leave _urbs as it was.
C15_NeverPropagates ==
    [][lastCall' \in {"ClearHalt", "~InterfaceToken"} =>
           (thrown' = "none" /\ _urbs' = _urbs)]_vars

C15_Witness ==
    /\ lastCall = "ClearHalt" /\ lastErrno = "ENODEV" /\ thrown = "none"
    /\ _urbs # {}

\* C13: when the USBDEVFS_SUBMITURB ioctl at the start of Submit fails,
\* Submit fails with Busy for EBUSY, NotFound for ENODEV and the generic I/O
\* failure otherwise, and so does the bulk call; _urbs is as before, the
\* thread makes no poll and no reap, and Urb::Discard is not called.
C13_SubmitIoctlFailure ==
    [][\A t \in Threads :
          (pc[t] = "UrbSubmit" /\ submitErrno'[t] # submitErrno[t]
               /\ submitErrno'[t] # "ok") =>
              /\ submitRes'[t] = (CASE submitErrno'[t] = "EBUSY" -> "Busy"
                                     [] submitErrno'[t] = "ENODEV" -> "NotFound"
                                     [] OTHER -> "IOError")
              /\ callRes'[t] = submitRes'[t]
              /\ pc'[t] = "Idle"
              /\ _urbs' = _urbs
              /\ inflight' = inflight /\ completed' = completed
              /\ discards'[t] = discards[t] /\ discardRes'[t] = discardRes[t]]_vars

C13_Witness ==
    \E t \in Threads :
        /\ submitErrno[t] = "ENODEV" /\ submitRes[t] = "NotFound"
        /\ nSubmit[t] = 2 /\ nOk[t] = 1 /\ discards[t] = 0

\* C16: a reaped urb that _urbs holds is erased, under the lock, by the
\* thread that reaped it; that thread's Submit returns normally exactly when
\* the urb is the one it submitted, and otherwise stays in its loop; so a
\* Submit never returns normally more often than its own urb was completed.
C16_SuccessOnlyOnOwnCompletion ==
    /\ [](\A t \in Threads : nOk[t] <= Len(devlog[t]))
    /\ [][\A t \in Threads :
            (pc[t] = "Lookup" /\ pc'[t] # "Lookup") =>
                LET k == completedKernelUrb[t]
                IN /\ _mutex = t /\ _mutex' = "none"
                   /\ _urbs' = _urbs \ {k}
                   /\ \A o \in Threads \ {t} : submitRes'[o] = submitRes[o]
                   /\ submitRes'[t] = "ok" <=> (k \in _urbs /\ k = urb[t])
                   /\ k # urb[t] => (submitRes'[t] = "running" /\ pc'[t] = "Poll")]_vars

C16_Witness ==
    \E t \in Threads : \E o \in Threads \ {t} :
        /\ stolen[o] /\ submitRes[o] = "running" /\ urb[o] \notin _urbs
        /\ submitRes[t] = "ok"

\* C17: a thread holds _mutex only at the insert and at the find-and-erase
\* step after Reap has returned, never in poll or in the reap ioctl; when a
\* thread is in poll or in the reap ioctl, another thread that has to insert
\* or to erase can go on.
C17_LockNotHeldWhileWaiting ==
    \A t \in Threads :
        /\ _mutex = t => pc[t] \in {"Insert", "Lookup"}
        /\ pc[t] \in {"Poll", "ReapIoctl"} =>
               \A o \in Threads \ {t} :
                   pc[o] \in {"Insert", "Lookup"} =>
                       ENABLED (scoped_mutex_lock(o) \/ Submit_insert(o)
                                    \/ Submit_lookup(o))

C17_Witness ==
    \E t \in Threads : \E o \in Threads \ {t} :
        pc[t] = "Poll" /\ pollR[t] = 0 /\ pc[o] = "Lookup" /\ _mutex = o

\* C18: with the continuation capability the first chunk a bulk call
\* submits has the continuation flag clear and every later one has it set;
\* without the capability, also when the probe failed, no chunk has it set.
C18_ContinuationAfterFirst ==
    \A t \in Threads :
        \A i \in 1..Len(chunks[t]) :
            "BULK_CONTINUATION" \in chunks[t][i].flags <=>
                ("BULK_CONTINUATION" \in _capabilities /\ i > 1)

C18_Witness ==
    \E t \in Threads :
        /\ op[t] = "read" /\ Len(chunks[t]) = 2
        /\ "BULK_CONTINUATION" \notin chunks[t][1].flags
        /\ "BULK_CONTINUATION" \in chunks[t][2].flags

\* C19: with the zero-packet capability a chunk WriteBulk submits carries
\* the zero-packet flag exactly when fewer bytes than the transfer size
\* were read into it; in a call that returned normally that is the last
\* chunk and no other.
C19_ZeroPacketOnShortChunk ==
    \A t \in Threads :
        (op[t] = "write" /\ "ZERO_PACKET" \in _capabilities) =>
            \A i \in 1..Len(chunks[t]) :
                /\ "ZERO_PACKET" \in chunks[t][i].flags <=>
                       chunks[t][i].len < transferSize[t]
                /\ callRes[t] = "ok" =>
                       ("ZERO_PACKET" \in chunks[t][i].flags <=> i = Len(chunks[t]))

C19_Witness ==
    \E t \in Threads :
        /\ op[t] = "write" /\ "ZERO_PACKET" \in _capabilities /\ callRes[t] = "ok"
        /\ Lens(chunks[t]) = <<transferSize[t], 1>>
        /\ "ZERO_PACKET" \notin chunks[t][1].flags
        /\ "ZERO_PACKET" \in chunks[t][2].flags

\* C20: every poll of a Submit is given the whole timeout, whatever the
\* Submit has waited before: a poll that runs out adds the whole timeout to
\* the time the Submit has waited, also after an unknown or a foreign urb
\* was reaped; and a Submit fails with Timeout only when its reap ioctl
\* found nothing ready.
C20_WholeTimeoutEveryIteration ==
    /\ [](\A t \in Threads : submitRes[t] = "Timeout" => reapErrno[t] = "EAGAIN")
    /\ [][\A t \in Threads :
            /\ (pc[t] = "Poll" /\ pc'[t] = "ReapIoctl" /\ pollR'[t] = 0) =>
                   waitedMs'[t] = waitedMs[t] + TimeoutMs
            /\ (pc[t] = "Lookup" /\ pc'[t] = "Poll") => waitedMs'[t] = waitedMs[t]]_vars

\* a Submit that has returned normally after two polls ran out
C20_Witness ==
    \E t \in Threads :
        submitRes[t] = "ok" /\ pc[t] # "Idle" /\ waitedMs[t] = 2 * TimeoutMs

====
